---- MODULE Spec2Model ----
(***************************************************************************)
(* Model of src/streamlit_app.py: the Streamlit orchestration layer of the *)
(* multimodal assistant.  Streamlit re-executes the script, and so main(), *)
(* on every user interaction; st.session_state is what survives between    *)
(* two executions of one browser session, the MultimodalAIAssistant object *)
(* is rebuilt by every execution.  The scratch directory "temp" is shared  *)
(* by all sessions of the server process.                                  *)
(*                                                                         *)
(* One script execution is two steps, split where the script stops using  *)
(* only its own session's state: Run (constructor, sidebar, saving the     *)
(* upload into temp/) and Process (routing and the collaborator, which     *)
(* reads the saved file back from temp/).                                  *)
(*                                                                         *)
(* Optional values: None is the empty tuple, a present value v is <<v>>,   *)
(* except for file names and paths, which are tuples of characters.        *)
(***************************************************************************)
EXTENDS Naturals, Sequences, FiniteSets, TLC

VARIABLES
    session_state,   \* per session: st.session_state, a map from key to value
    assistant,       \* per session: the MultimodalAIAssistant of the latest run
    widgets,         \* per session: the values the widgets returned to the latest run
    pc,              \* per session: "idle" or "saved" (upload written, not yet processed)
    temp,            \* the scratch directory: path -> bytes, or NoFile
    ev,              \* per session: what the latest run showed, built and called
    constructed,     \* per session: the collaborators some earlier or this run constructed
    uuids_issued,    \* number of uuid4() values handed out so far
    actor            \* the session whose script took the latest step

vars == <<session_state, assistant, widgets, pc, temp, ev, constructed, uuids_issued, actor>>

(* ------------------------------ bounds --------------------------------- *)

\* longest chat transcript for which a further question is still asked
MaxTranscript == 3

(* ------------------------------ values --------------------------------- *)

None == <<>>
Some(v) == <<v>>
Truthy(opt) == opt # None /\ opt[1] # ""

Sessions == {"s1", "s2"}
NoFile == "NoFile"

AutoDetect == "Auto Detect"
QuestionAnswering == "Question Answering"
Transcription == "Transcription"
ImageDescription == "Image Description"
ProcessingModes == {AutoDetect, QuestionAnswering, Transcription, ImageDescription}

(* ------------------- file names, extensions, paths --------------------- *)

UpperChars == <<"A","B","C","D","E","F","G","H","I","J","K","L","M",
                "N","O","P","Q","R","S","T","U","V","W","X","Y","Z">>
LowerChars == <<"a","b","c","d","e","f","g","h","i","j","k","l","m",
                "n","o","p","q","r","s","t","u","v","w","x","y","z">>

\* str.lower() on one character
LowerChar(c) ==
    IF \E i \in 1..Len(UpperChars) : UpperChars[i] = c
    THEN LowerChars[CHOOSE i \in 1..Len(UpperChars) : UpperChars[i] = c]
    ELSE c

\* str.lower()
Lower(s) == [i \in 1..Len(s) |-> LowerChar(s[i])]

\* os.path.splitext(name)[1] for a name without directory separators: the
\* text from the last dot on, unless only dots precede that dot
SplitExt(name) ==
    LET dots == {i \in 1..Len(name) : name[i] = "."}
    IN  IF dots = {} THEN <<>>
        ELSE LET d == CHOOSE i \in dots : \A j \in dots : j <= i
             IN  IF \E j \in 1..(d - 1) : name[j] # "."
                 THEN SubSeq(name, d, Len(name))
                 ELSE <<>>

\* os.path.join("temp", name)
TempPath(name) == <<"t","e","m","p","/">> \o name

PdfExts == { <<".","p","d","f">> }
ImageExts == { <<".","j","p","g">>, <<".","j","p","e","g">>, <<".","p","n","g">> }
AudioExts == { <<".","m","p","3">>, <<".","w","a","v">>, <<".","m","p","4">>,
               <<".","a","v","i">> }

(* --------------------- session state and handles ----------------------- *)

\* st.session_state before the first script run of a session: no key is set
EmptyState == <<>>

\* "if key not in st.session_state: st.session_state.key = v"
SetDefault(ss, k, v) == IF k \in DOMAIN ss THEN ss ELSE ss @@ (k :> v)

NoHandles ==
    [audio_transcriber |-> None, pdf_chatbot |-> None,
     image_description_generator |-> None]

\* what one script run showed and did, as seen from outside
NoEvents ==
    [clear    |-> FALSE,  \* "Clear Conversation History" was pressed
     warning  |-> FALSE,  \* st.warning("Please enter Google API key first!")
     errors   |-> {},     \* collaborators whose construction failure was reported
     built    |-> {},     \* collaborators constructed
     calls    |-> {},     \* collaborator methods called, with their arguments
     chat_input |-> FALSE, \* st.chat_input was rendered
     dropped  |-> 0,      \* transcript entries the run discarded
     crashed  |-> FALSE]  \* the run ended in an uncaught exception

\* the widgets' values before the user touches them
NoWidgets ==
    [typed |-> "", clear |-> FALSE, uploaded_file |-> None,
     processing_mode |-> AutoDetect, prompt |-> None]

\* the collaborators' constructors; PDFChatbot loads its document when built
AudioTranscriber == Some("AudioTranscriber")
QwenVLDescriptionGenerator == Some("QwenVLDescriptionGenerator")
PDFChatbot(pdf_path, google_api_key, data) ==
    Some([pdf_path |-> pdf_path, google_api_key |-> google_api_key, data |-> data])

\* everything one script run reads and writes besides temp/
Context(ss, self, e, b) == [ss |-> ss, self |-> self, ev |-> e, constructed |-> b, ret |-> None]

(* --------------------- MultimodalAIAssistant methods ------------------- *)

\* __init__: get-or-initialise the four session keys; the handles start as None
MultimodalAIAssistant(c, uuid) ==
    LET s1 == SetDefault(c.ss, "session_id", uuid)
        s2 == SetDefault(s1, "pdf_chat_messages", <<>>)
        s3 == SetDefault(s2, "current_pdf_path", None)
        s4 == SetDefault(s3, "google_api_key", None)
    IN  [c EXCEPT !.ss = s4, !.self = NoHandles]

\* load_audio_transcriber starting a fresh conversation whenever it builds the model
load_audio_transcriber_resets_chat(c, build_ok) ==
    IF c.self.audio_transcriber = None
    THEN IF build_ok
         THEN [c EXCEPT !.self.audio_transcriber = AudioTranscriber,
                        !.constructed = @ \cup {"audio"},
                        !.ev.built = @ \cup {"audio"},
                        !.ss.pdf_chat_messages = <<>>]
         ELSE [c EXCEPT !.ev.errors = @ \cup {"audio"}]
    ELSE c

load_audio_transcriber(c, build_ok) ==
    IF c.self.audio_transcriber = None
    THEN IF build_ok
         THEN [c EXCEPT !.self.audio_transcriber = AudioTranscriber,
                        !.constructed = @ \cup {"audio"},
                        !.ev.built = @ \cup {"audio"}]
         ELSE [c EXCEPT !.ev.errors = @ \cup {"audio"}]
    ELSE c

\* load_pdf_chatbot with lines 62-63 lost: the path is recorded, the transcript kept
load_pdf_chatbot_keeps_transcript(c, pdf_path, data, build_ok) ==
    IF ~Truthy(c.ss.google_api_key)
    THEN [c EXCEPT !.ev.warning = TRUE, !.ret = None]
    ELSE LET c1 == [c EXCEPT !.ss.current_pdf_path = pdf_path]
             h == PDFChatbot(pdf_path, c.ss.google_api_key[1], data)
         IN  IF build_ok
             THEN [c1 EXCEPT !.self.pdf_chatbot = h,
                             !.constructed = @ \cup {"pdf"},
                             !.ev.built = @ \cup {"pdf"},
                             !.ret = h]
             ELSE [c1 EXCEPT !.ev.errors = @ \cup {"pdf"}, !.ret = None]

\* load_pdf_chatbot with the "return None" of line 58 lost: it warns and goes on
load_pdf_chatbot_warns_and_builds(c, pdf_path, data, build_ok) ==
    LET c0 == IF ~Truthy(c.ss.google_api_key) THEN [c EXCEPT !.ev.warning = TRUE] ELSE c
        c1 == IF c0.ss.current_pdf_path # pdf_path
              THEN [c0 EXCEPT !.ss.pdf_chat_messages = <<>>,
                              !.ss.current_pdf_path = pdf_path]
              ELSE c0
        h == PDFChatbot(pdf_path, c.ss.google_api_key, data)
    IN  IF build_ok
        THEN [c1 EXCEPT !.self.pdf_chatbot = h,
                        !.constructed = @ \cup {"pdf"},
                        !.ev.built = @ \cup {"pdf"},
                        !.ret = h]
        ELSE [c1 EXCEPT !.ev.errors = @ \cup {"pdf"}, !.ret = None]

load_pdf_chatbot(c, pdf_path, data, build_ok) ==
    IF ~Truthy(c.ss.google_api_key)
    THEN [c EXCEPT !.ev.warning = TRUE, !.ret = None]
    ELSE LET c1 == IF c.ss.current_pdf_path # pdf_path
                   THEN [c EXCEPT !.ss.pdf_chat_messages = <<>>,
                                  !.ss.current_pdf_path = pdf_path,
                                  !.ev.dropped = @ + Len(c.ss.pdf_chat_messages)]
                   ELSE c
             h == PDFChatbot(pdf_path, c.ss.google_api_key[1], data)
         IN  IF build_ok
             THEN [c1 EXCEPT !.self.pdf_chatbot = h,
                             !.constructed = @ \cup {"pdf"},
                             !.ev.built = @ \cup {"pdf"},
                             !.ret = h]
             ELSE [c1 EXCEPT !.ev.errors = @ \cup {"pdf"}, !.ret = None]

load_image_description_generator(c, build_ok) ==
    IF c.self.image_description_generator = None
    THEN IF build_ok
         THEN [c EXCEPT !.self.image_description_generator = QwenVLDescriptionGenerator,
                        !.constructed = @ \cup {"image"},
                        !.ev.built = @ \cup {"image"}]
         ELSE [c EXCEPT !.ev.errors = @ \cup {"image"}]
    ELSE c

\* render_sidebar with line 107 indented under "if self.pdf_chatbot:"
render_sidebar_clears_with_handle(c, typed, clear) ==
    LET c1 == IF typed # ""
              THEN [c EXCEPT !.ss.google_api_key = Some(typed)]
              ELSE c
        c2 == [c1 EXCEPT !.ev.clear = clear]
    IN  IF clear /\ c2.self.pdf_chatbot # None
        THEN [c2 EXCEPT !.ev.calls = @ \cup {<<"clear_history", c2.ss.session_id>>},
                        !.ss.pdf_chat_messages = <<>>]
        ELSE c2

\* typed: what the key text input returns; clear: what the button returns
render_sidebar(c, typed, clear) ==
    LET c1 == IF typed # ""
              THEN [c EXCEPT !.ss.google_api_key = Some(typed)]
              ELSE c
        c2 == [c1 EXCEPT !.ev.clear = clear]
    IN  IF clear
        THEN LET c3 == IF c2.self.pdf_chatbot # None
                       THEN [c2 EXCEPT !.ev.calls =
                                @ \cup {<<"clear_history", c2.ss.session_id>>}]
                       ELSE c2
             IN  [c3 EXCEPT !.ss.pdf_chat_messages = <<>>,
                            !.ev.dropped = @ + Len(c3.ss.pdf_chat_messages)]
        ELSE c2

\* render_pdf_chat_interface with the early return of lines 120-121 lost: the
\* chat goes on without a handle, and chat() on None raises
render_pdf_chat_interface_no_return(c, file_path, data, prompt, o) ==
    LET c1 == load_pdf_chatbot(c, file_path, data, o.build)
        c2 == [c1 EXCEPT !.self.pdf_chatbot = c1.ret]
        c4 == [c2 EXCEPT !.ev.chat_input = TRUE]
    IN  IF ~Truthy(prompt) THEN c4
        ELSE LET c3 == [c4 EXCEPT
                          !.ss.pdf_chat_messages =
                              Append(@, [role |-> "user", content |-> prompt[1]])]
             IN  IF c3.self.pdf_chatbot = None
                 THEN [c3 EXCEPT !.ev.crashed = TRUE]
                 ELSE IF o.call
                 THEN [c3 EXCEPT !.ev.calls =
                                    @ \cup {<<"chat", prompt[1], c3.ss.session_id>>},
                                 !.ss.pdf_chat_messages =
                          Append(@, [role |-> "assistant", content |-> o.answer])]
                 ELSE [c3 EXCEPT !.ev.calls =
                                    @ \cup {<<"chat", prompt[1], c3.ss.session_id>>},
                                 !.ev.crashed = TRUE]

\* o: whether the constructor and the collaborator's call return or raise, and
\* the answer the collaborator gives
render_pdf_chat_interface(c, file_path, data, prompt, o) ==
    LET c1 == load_pdf_chatbot(c, file_path, data, o.build)
        c2 == [c1 EXCEPT !.self.pdf_chatbot = c1.ret]
        c4 == [c2 EXCEPT !.ev.chat_input = TRUE]
    IN  IF c2.self.pdf_chatbot = None THEN c2
        ELSE IF ~Truthy(prompt) THEN c4
        ELSE LET c3 == [c4 EXCEPT
                          !.ss.pdf_chat_messages =
                              Append(@, [role |-> "user", content |-> prompt[1]]),
                          !.ev.calls =
                              @ \cup {<<"chat", prompt[1], c4.ss.session_id>>}]
             IN  IF o.call
                 THEN [c3 EXCEPT !.ss.pdf_chat_messages =
                          Append(@, [role |-> "assistant", content |-> o.answer])]
                 ELSE [c3 EXCEPT !.ev.crashed = TRUE]

\* auto-detection with '.jpeg' missing from the image extensions of line 190
ResolveMode_without_jpeg(processing_mode, file_extension) ==
    IF processing_mode = AutoDetect
    THEN IF file_extension \in PdfExts THEN QuestionAnswering
         ELSE IF file_extension \in ImageExts \ { <<".","j","p","e","g">> }
              THEN ImageDescription
         ELSE IF file_extension \in AudioExts THEN Transcription
         ELSE processing_mode
    ELSE processing_mode

\* lines 186-193: the mode after auto-detection
ResolveMode(processing_mode, file_extension) ==
    IF processing_mode = AutoDetect
    THEN IF file_extension \in PdfExts THEN QuestionAnswering
         ELSE IF file_extension \in ImageExts THEN ImageDescription
         ELSE IF file_extension \in AudioExts THEN Transcription
         ELSE processing_mode
    ELSE processing_mode

\* main_ui from line 184 on, for an upload saved under temp/; data is what
\* temp/name holds when the collaborator reads it
main_ui_process(c, name, data, mode, prompt, o) ==
    LET file_path == TempPath(name)
        file_extension == Lower(SplitExt(name))
        processing_mode == ResolveMode(mode, file_extension)
    IN  IF processing_mode = QuestionAnswering /\ file_extension = <<".","p","d","f">>
        THEN render_pdf_chat_interface(c, file_path, data, prompt, o)
        ELSE IF processing_mode = Transcription /\ file_extension \in AudioExts
        THEN LET c1 == load_audio_transcriber(c, o.build)
             IN  IF c1.self.audio_transcriber # None
                 THEN [c1 EXCEPT !.ev.calls = @ \cup {<<"transcribe", file_path, data>>},
                                 !.ev.crashed = ~o.call]
                 ELSE c1
        ELSE IF processing_mode = ImageDescription /\ file_extension \in ImageExts
        THEN LET c1 == load_image_description_generator(c, o.build)
             IN  IF c1.self.image_description_generator # None
                 THEN [c1 EXCEPT !.ev.calls =
                                    @ \cup {<<"generate_description", file_path, data>>},
                                 !.ev.crashed = ~o.call]
                 ELSE c1
        ELSE c

\* main_ui saving an upload only where temp/ holds no file of that name yet
main_ui_save_keeps_existing(tmp, uploaded_file) ==
    IF uploaded_file = None \/ tmp[TempPath(uploaded_file[1].name)] # NoFile
    THEN tmp
    ELSE [tmp EXCEPT ![TempPath(uploaded_file[1].name)] = uploaded_file[1].data]

\* main_ui, lines 176-181: the upload is written to temp/<its name>, replacing
\* whatever is there
main_ui_save(tmp, uploaded_file) ==
    IF uploaded_file = None
    THEN tmp
    ELSE [tmp EXCEPT ![TempPath(uploaded_file[1].name)] = uploaded_file[1].data]

(* ------------------------------ inputs --------------------------------- *)

\* what the key text input can return: empty, or a key
TypedKeys == {"", "k1"}
Questions == {"q1"}
Answers == {"a1"}
\* whether the constructor / the collaborator's call returns, and its answer
Outcomes == [build : BOOLEAN, call : BOOLEAN, answer : Answers]

a_pdf == <<"a",".","p","d","f">>
b_pdf == <<"b",".","p","d","f">>
R_PDF == <<"R",".","P","D","F">>
n_txt == <<"n",".","t","x","t">>
s_mp3 == <<"s",".","m","p","3">>
s_wav == <<"s",".","w","a","v">>
v_mp4 == <<"v",".","m","p","4">>
v_avi == <<"v",".","a","v","i">>
i_jpg == <<"i",".","j","p","g">>
i_jpeg == <<"i",".","j","p","e","g">>
i_png == <<"i",".","p","n","g">>
I_JPG == <<"I",".","J","P","G">>

Names == {a_pdf, b_pdf, R_PDF, n_txt, s_mp3, s_wav, v_mp4, v_avi,
          i_jpg, i_jpeg, i_png, I_JPG}
Paths == {TempPath(n) : n \in Names}

\* an upload: the declared file name and the bytes
Upload(name, data) == Some([name |-> name, data |-> data])

SpecUploads == {Upload(n, "x") : n \in {a_pdf, b_pdf, s_mp3, i_jpg}}
RouteUploads == {Upload(n, "x") : n \in Names}

(* ------------------------------ actions -------------------------------- *)

Init ==
    /\ session_state = [s \in Sessions |-> EmptyState]
    /\ assistant = [s \in Sessions |-> NoHandles]
    /\ widgets = [s \in Sessions |-> NoWidgets]
    /\ pc = [s \in Sessions |-> "idle"]
    /\ temp = [p \in Paths |-> NoFile]
    /\ ev = [s \in Sessions |-> NoEvents]
    /\ constructed = [s \in Sessions |-> {}]
    /\ uuids_issued = 0
    /\ actor = "none"

TranscriptLen(s) ==
    IF "pdf_chat_messages" \in DOMAIN session_state[s]
    THEN Len(session_state[s].pdf_chat_messages)
    ELSE 0

\* One script run of session s up to the saved upload: main() builds a new
\* assistant, run() renders the sidebar, main_ui() reads the widgets and writes
\* the upload into temp/ (lines 157-181).  Without an upload the run ends here.
\* w: the values the widgets return to this run.
Run(s, w) ==
    /\ pc[s] = "idle"
    /\ LET c0 == Context(session_state[s], assistant[s], NoEvents, constructed[s])
           c1 == MultimodalAIAssistant(c0, uuids_issued + 1)
           c2 == render_sidebar(c1, w.typed, w.clear)
       IN  /\ session_state' = [session_state EXCEPT ![s] = c2.ss]
           /\ assistant' = [assistant EXCEPT ![s] = c2.self]
           /\ ev' = [ev EXCEPT ![s] = c2.ev]
           /\ constructed' = [constructed EXCEPT ![s] = c2.constructed]
    /\ uuids_issued' = IF "session_id" \in DOMAIN session_state[s]
                       THEN uuids_issued ELSE uuids_issued + 1
    /\ widgets' = [widgets EXCEPT ![s] = w]
    /\ temp' = main_ui_save(temp, w.uploaded_file)
    /\ pc' = IF w.uploaded_file = None THEN pc ELSE [pc EXCEPT ![s] = "saved"]
    /\ actor' = s

\* The rest of the script run of session s: routing and the collaborator, which
\* reads temp/name as it is now (lines 183-211).
Process(s, o) ==
    /\ pc[s] = "saved"
    /\ LET w == widgets[s]
           name == w.uploaded_file[1].name
           c0 == Context(session_state[s], assistant[s], ev[s], constructed[s])
           c1 == main_ui_process(c0, name, temp[TempPath(name)],
                                 w.processing_mode, w.prompt, o)
       IN  /\ session_state' = [session_state EXCEPT ![s] = c1.ss]
           /\ assistant' = [assistant EXCEPT ![s] = c1.self]
           /\ ev' = [ev EXCEPT ![s] = c1.ev]
           /\ constructed' = [constructed EXCEPT ![s] = c1.constructed]
    /\ pc' = [pc EXCEPT ![s] = "idle"]
    /\ actor' = s
    /\ UNCHANGED <<widgets, temp, uuids_issued>>

(* -------------------------- user interactions -------------------------- *)
(* Streamlit runs the script once when the page is opened and once more    *)
(* for every widget event.  Interactions are taken one at a time: a run    *)
(* sees one event.  The text input, the uploader and the selectbox keep    *)
(* their value from run to run; the button and the chat input are triggers *)
(* whose value is delivered to the one run they cause.                     *)

Opened(s) == session_state[s] # EmptyState

\* the widget values of a run caused by no trigger
Quiet(s) == [widgets[s] EXCEPT !.clear = FALSE, !.prompt = None]

\* the browser opens the page: the first script run of the session
Open(s) ==
    /\ ~Opened(s)
    /\ Run(s, NoWidgets)

EnterKey(s, typed) ==
    /\ Opened(s)
    /\ typed # widgets[s].typed
    /\ Run(s, [Quiet(s) EXCEPT !.typed = typed])

PressClear(s) ==
    /\ Opened(s)
    /\ Run(s, [Quiet(s) EXCEPT !.clear = TRUE])

UploadFile(s, f) ==
    /\ Opened(s)
    /\ Run(s, [Quiet(s) EXCEPT !.uploaded_file = f])

SelectMode(s, m) ==
    /\ Opened(s)
    /\ m # widgets[s].processing_mode
    /\ Run(s, [Quiet(s) EXCEPT !.processing_mode = m])

\* the chat input takes a question only where the latest run rendered it
Ask(s, q) ==
    /\ Opened(s)
    /\ ev[s].chat_input
    /\ TranscriptLen(s) < MaxTranscript
    /\ Run(s, [Quiet(s) EXCEPT !.prompt = Some(q)])

(* ---------------- one session, any sequence of interactions ------------ *)

OpenPage == Open("s1")
TypeKey == \E typed \in TypedKeys : EnterKey("s1", typed)
ClearHistory == PressClear("s1")
ChooseFile == \E f \in {None} \cup SpecUploads : UploadFile("s1", f)
ChooseMode == \E m \in ProcessingModes : SelectMode("s1", m)
SubmitQuestion == \E q \in Questions : Ask("s1", q)
Respond == \E o \in Outcomes : Process("s1", o)

Next ==
    \/ OpenPage
    \/ TypeKey
    \/ ClearHistory
    \/ ChooseFile
    \/ ChooseMode
    \/ SubmitQuestion
    \/ Respond

Spec == Init /\ [][Next]_vars

(* ------------- one session, one upload of every kind of name ----------- *)

AllOk == [build |-> TRUE, call |-> TRUE, answer |-> "a1"]

RouteOpenPage == Open("s1")
RouteTypeKey == \E typed \in TypedKeys : EnterKey("s1", typed)
RouteChooseFile ==
    /\ widgets["s1"].uploaded_file = None
    /\ \E f \in RouteUploads : UploadFile("s1", f)
RouteChooseMode == \E m \in ProcessingModes : SelectMode("s1", m)
RouteSubmitQuestion == Ask("s1", "q1")
RouteRespond == \E o \in Outcomes : Process("s1", o)

RouteNext ==
    \/ RouteOpenPage
    \/ RouteTypeKey
    \/ RouteChooseFile
    \/ RouteChooseMode
    \/ RouteSubmitQuestion
    \/ RouteRespond

RouteSpec == Init /\ [][RouteNext]_vars

(* ------------- two sessions uploading under the same names ------------- *)

\* the bytes each session uploads: different files under the same name
DataOf(s) == IF s = "s1" THEN "x" ELSE "y"

RaceOpenPage == \E s \in Sessions : Open(s)
RaceTypeKey == \E s \in Sessions : EnterKey(s, "k1")
RaceChooseFile ==
    \E s \in Sessions, n \in {s_mp3, a_pdf} : UploadFile(s, Upload(n, DataOf(s)))
RaceSubmitQuestion == \E s \in Sessions : Ask(s, "q1")
RaceRespond == \E s \in Sessions : Process(s, AllOk)

RaceNext ==
    \/ RaceOpenPage
    \/ RaceTypeKey
    \/ RaceChooseFile
    \/ RaceSubmitQuestion
    \/ RaceRespond

RaceSpec == Init /\ [][RaceNext]_vars

(* ============================== properties ============================= *)

Messages(s) == session_state[s].pdf_chat_messages
CurrentPdfPath(s) == session_state[s].current_pdf_path
GoogleApiKey(s) == session_state[s].google_api_key

\* between two script runs of an opened session
Idle(s) == Opened(s) /\ pc[s] = "idle"
\* this step is the second half of a script run of s
ProcessStep(s) == pc[s] = "saved" /\ pc'[s] = "idle"
\* this step is the first half of a script run of an opened session s
RunStep(s) == Opened(s) /\ pc[s] = "idle" /\ actor' = s

\* the reference table of section 3, by file name
PdfNames == {a_pdf, b_pdf, R_PDF}
ImageNames == {i_jpg, i_jpeg, i_png, I_JPG}
AudioNames == {s_mp3, s_wav, v_mp4, v_avi}
KindOf(name) ==
    IF name \in PdfNames THEN "pdf"
    ELSE IF name \in ImageNames THEN "image"
    ELSE IF name \in AudioNames THEN "audio"
    ELSE "none"
ModeOfKind(kind) ==
    IF kind = "pdf" THEN QuestionAnswering
    ELSE IF kind = "image" THEN ImageDescription
    ELSE IF kind = "audio" THEN Transcription
    ELSE "none"
\* the collaborator the widgets' file and mode are to be routed to, or "none"
RoutedTo(w) ==
    IF w.uploaded_file = None THEN "none"
    ELSE LET kind == KindOf(w.uploaded_file[1].name)
         IN  IF w.processing_mode \in {AutoDetect, ModeOfKind(kind)} THEN kind ELSE "none"

\* the collaborators a run constructed, failed to construct or called
CollaboratorOf(fn) ==
    IF fn \in {"chat", "clear_history"} THEN "pdf"
    ELSE IF fn = "transcribe" THEN "audio"
    ELSE "image"
Touched(e) == e.built \cup e.errors \cup {CollaboratorOf(call[1]) : call \in e.calls}
Called(e, fn) == \E call \in e.calls : call[1] = fn

\* C1: whenever the question-answering flow changes current_pdf_path (which it
\* does only with a credential present), the transcript is empty once the run
\* is over: nothing recorded for the previous document survives.
C1_PathChangeEmptiesTranscript ==
    [][\A s \in Sessions :
         (Opened(s) /\ CurrentPdfPath(s)' # CurrentPdfPath(s))
            => /\ Messages(s)' = <<>>
               /\ Truthy(GoogleApiKey(s)')
               /\ ev'[s].dropped = Len(Messages(s))]_vars

\* C1 witness: a run has moved the session to b.pdf and discarded a transcript
C1_Witness ==
    /\ Idle("s1")
    /\ CurrentPdfPath("s1") = TempPath(b_pdf)
    /\ ev["s1"].dropped >= 2
    /\ ~ev["s1"].clear
    /\ Messages("s1") = <<>>

\* C2: with no credential, a run whose PDF is routed to Question Answering shows
\* the enter-API-key warning, constructs no Q&A handle, calls no collaborator
\* and leaves the session state (transcript, document path) as it was.
C2_NoCredentialOnlyWarns ==
    [][\A s \in Sessions :
         (ProcessStep(s) /\ RoutedTo(widgets[s]) = "pdf" /\ ~Truthy(GoogleApiKey(s)))
            => /\ ev'[s].warning
               /\ Touched(ev'[s]) = {}
               /\ assistant'[s].pdf_chatbot = None
               /\ "pdf" \notin constructed'[s]
               /\ ~ev'[s].chat_input
               /\ session_state'[s] = session_state[s]
               /\ Messages(s)' = <<>>
               /\ CurrentPdfPath(s)' = None]_vars

\* C2 witness: a PDF was routed to Question Answering without a credential
C2_Witness ==
    /\ Idle("s1")
    /\ RoutedTo(widgets["s1"]) = "pdf"
    /\ GoogleApiKey("s1") = None
    /\ ev["s1"].warning

\* C3: once a run in which "Clear Conversation History" was pressed is over, the
\* transcript is empty, whatever file and mode are selected and whether or not
\* a Q&A handle exists.
C3_ClearEmptiesTranscript ==
    \A s \in Sessions : (Idle(s) /\ widgets[s].clear) => Messages(s) = <<>>

\* C3 witness: clear was pressed on a transcript of a question and its answer,
\* with a PDF selected, so that the run went on into the question-answering flow
C3_Witness ==
    /\ Idle("s1")
    /\ ev["s1"].clear
    /\ ev["s1"].dropped >= 2
    /\ "pdf" \in ev["s1"].built
    /\ Messages("s1") = <<>>

\* C4: once a run with an upload is over, the collaborators it constructed or
\* called are exactly what the reference table gives for (mode, file name): the
\* table's collaborator when the resolved mode fits the extension (for a PDF
\* without a credential: none, and the warning), none otherwise; never two.
C4_RoutingMatchesTable ==
    \A s \in Sessions :
        (Idle(s) /\ widgets[s].uploaded_file # None)
            => LET x == RoutedTo(widgets[s])
                   e == ev[s]
               IN  /\ Cardinality(Touched(e)) <= 1
                   /\ x = "none" => Touched(e) = {}
                   /\ x \in {"audio", "image"} => Touched(e) = {x}
                   /\ (x = "pdf" /\ Truthy(GoogleApiKey(s))) => Touched(e) = {"pdf"}
                   /\ (x = "pdf" /\ ~Truthy(GoogleApiKey(s)))
                         => (Touched(e) = {} /\ e.warning)
                   /\ x # "pdf" => ~e.warning

\* C4 witness: i.jpeg under Auto Detect was described
C4_Witness ==
    /\ Idle("s1")
    /\ widgets["s1"].uploaded_file = Upload(i_jpeg, "x")
    /\ widgets["s1"].processing_mode = AutoDetect
    /\ Called(ev["s1"], "generate_description")

\* C5: a run routed to Transcription or Image Description in which clear was
\* not pressed leaves the transcript and the current document path as they were.
C5_MediaFlowsKeepTranscript ==
    [][\A s \in Sessions :
         (/\ Opened(s)
          /\ actor' = s
          /\ RoutedTo(widgets'[s]) \in {"audio", "image"}
          /\ ~widgets'[s].clear)
            => /\ Messages(s)' = Messages(s)
               /\ CurrentPdfPath(s)' = CurrentPdfPath(s)]_vars

\* C5 witness: an audio file was transcribed while a PDF conversation is on record
C5_Witness ==
    /\ Idle("s1")
    /\ Called(ev["s1"], "transcribe")
    /\ Len(Messages("s1")) >= 2
    /\ CurrentPdfPath("s1") = TempPath(a_pdf)

\* C6 (as claimed): no script run constructs a transcription or captioning
\* handle that the session has constructed before.
C6_HandleBuiltAtMostOnce ==
    [][\A s \in Sessions :
         ProcessStep(s)
            => (ev'[s].built \cap constructed[s]) \cap {"audio", "image"} = {}]_vars

\* C7 (as claimed): when clear is pressed in a session whose preceding run built
\* a Q&A handle, clear_history is called with the session identifier.
C7_ClearInstructsCollaborator ==
    [][\A s \in Sessions :
         (RunStep(s) /\ widgets'[s].clear /\ assistant[s].pdf_chatbot # None)
            => <<"clear_history", session_state[s].session_id>> \in ev'[s].calls]_vars

\* C8: a run in which constructing the Q&A collaborator fails reports it, is
\* left without a handle, renders no chat input, appends no question, calls no
\* chat and does not end in an exception; and every run that routes a PDF to
\* Question Answering with a credential attempts the construction, whatever
\* happened before.
C8_ConstructionFailureIsContained ==
    [][\A s \in Sessions :
         /\ (ProcessStep(s) /\ "pdf" \in ev'[s].errors)
               => /\ assistant'[s].pdf_chatbot = None
                  /\ "pdf" \notin ev'[s].built
                  /\ ~ev'[s].chat_input
                  /\ ~Called(ev'[s], "chat")
                  /\ ~ev'[s].crashed
                  /\ Messages(s)' = IF CurrentPdfPath(s)' # CurrentPdfPath(s)
                                    THEN <<>> ELSE Messages(s)
         /\ (ProcessStep(s) /\ RoutedTo(widgets[s]) = "pdf" /\ Truthy(GoogleApiKey(s)))
               => ("pdf" \in ev'[s].built) # ("pdf" \in ev'[s].errors)]_vars

\* C8 witness: the construction failed in the run of a submitted question, and
\* the transcript of the earlier turn is what it was
C8_Witness ==
    /\ Idle("s1")
    /\ "pdf" \in ev["s1"].errors
    /\ widgets["s1"].prompt # None
    /\ Len(Messages("s1")) = 2
    /\ "pdf" \in constructed["s1"]

Alternating(m) ==
    \A i \in 1..Len(m) : m[i].role = IF i % 2 = 1 THEN "user" ELSE "assistant"

\* C9 (as claimed): between interactions the transcript alternates user,
\* assistant, user, assistant ... and has even length, also when chat() can fail.
C9_TranscriptAlternates ==
    \A s \in Sessions :
        Idle(s) => (Alternating(Messages(s)) /\ Len(Messages(s)) % 2 = 0)

\* C10: a step of one session changes nothing of another session's state; an
\* upload replaces whatever temp/<name> holds; and transcribe reads what
\* temp/<name> holds when it is called, whoever wrote it.
C10_SharedScratchIsolatedSessions ==
    [][\A s \in Sessions :
         /\ actor' # s
               => /\ session_state'[s] = session_state[s]
                  /\ assistant'[s] = assistant[s]
                  /\ widgets'[s] = widgets[s]
                  /\ ev'[s] = ev[s]
         /\ (pc[s] = "idle" /\ pc'[s] = "saved")
               => temp'[TempPath(widgets'[s].uploaded_file[1].name)]
                     = widgets'[s].uploaded_file[1].data
         /\ ProcessStep(s)
               => \A call \in ev'[s].calls :
                     call[1] = "transcribe" => call[3] = temp[call[2]]]_vars

\* C10 witness: a session's transcriber was called on the other session's bytes,
\* while that session's own question and answer are on record
C10_Witness ==
    \E s \in Sessions :
        /\ Idle(s)
        /\ <<"transcribe", TempPath(s_mp3), DataOf(IF s = "s1" THEN "s2" ELSE "s1")>>
              \in ev[s].calls
        /\ widgets[s].uploaded_file = Upload(s_mp3, DataOf(s))
        /\ Len(Messages(s)) = 2
        /\ \A r \in Sessions \ {s} : Opened(r) /\ Messages(r) = <<>>

====
